---- MODULE Spec2Model ----
(***************************************************************************)
(* Model of the polling engine of src/src/App.tsx: the effect of App that  *)
(* calls fetchData once on mount and then every 3000 ms, and fetchData     *)
(* itself, an async function that awaits both fetches together, parses     *)
(* the two bodies one after the other and then merges the two results      *)
(* into the history refs and the React state in one synchronous block.     *)
(*                                                                         *)
(* An action is one run of JavaScript between two suspension points        *)
(* (await), except that the synchronous merge block (lines 150-162) is     *)
(* split into its four assignments; `running` names the cycle that holds   *)
(* the single JavaScript thread while it is inside that block.             *)
(***************************************************************************)
EXTENDS Integers, Sequences, FiniteSets, TLC

\* ------------------------------------------------------------- bounds
MaxCycles == 2          \* calls of fetchData the model follows

\* ---------------------------------------------------------- constants
SliceKeep == 19         \* slice(-19), lines 153 and 157
PollSeconds == 3        \* setInterval(fetchData, 3000), line 169
SecondsPerDay == 86400  \* toLocaleTimeString keeps the time of day only
Undefined == 0          \* a property the JSON body does not carry

HistoryCap == SliceKeep + 1
StartClock == SecondsPerDay - 1     \* mounted at 23:59:59
Instruments == <<"ETHUSDT", "BTCUSDT">>
InstrumentSet == {Instruments[k] : k \in 1..Len(Instruments)}
Cycles == 1..MaxCycles

VARIABLES
    phase,          \* "init" | "mounted" | "unmounted": the effect's lifecycle
    interval,       \* "none" | "armed" | "cleared": the setInterval timer
    clock,          \* wall clock, in seconds, read at the last timer tick
    nCycles,        \* calls of fetchData so far
    pc,             \* pc[c]: where call c of fetchData stands
    res,            \* res[c][i]: the promise of call c's fetch for instrument i
    running,        \* the call inside its synchronous merge block, or 0
    now,            \* the local `now` of the running merge block (line 150)
    history,        \* ethHistoryRef.current / btcHistoryRef.current
    data,           \* ethData / btcData (React state)
    issued,         \* issued[i]: fetch() calls made for instrument i
    applied,        \* applied[i]: every point ever appended to history[i]
    published,      \* published[i]: the calls that set data[i], in order
    trace           \* trace[i]: what happened to the fetches for i, in order: call c
                    \* issued it, its response arrived, its body was read (kept by
                    \* SpecTraced only)

vars == <<phase, interval, clock, nCycles, pc, res, running, now, history,
          data, issued, applied, published, trace>>

\* ------------------------------------------------------------ helpers
\* useState<AssetData | null>(null)
Null == [null |-> TRUE]

Pending == [kind |-> "pending", val |-> Undefined]

\* The source's figures move from poll to poll: call c reads 10c for ETHUSDT
\* and -5c for BTCUSDT.
SourceValue(c, i) == IF i = "ETHUSDT" THEN 10 * c ELSE (-5) * c

\* What a fetch can settle to: a rejection (network error), or a response whose
\* body is a well-formed payload ("ok"), a payload without updateTimestamp
\* ("noTs"), JSON without a data object ("noData", e.g. an error status with an
\* error body), or not JSON at all ("badJson").
Responses(c, i) ==
    {[kind |-> "rejected", val |-> Undefined]}
    \cup {[kind |-> k, val |-> SourceValue(c, i)] : k \in {"ok", "noTs"}}
    \cup {[kind |-> k, val |-> Undefined] : k \in {"noData", "badJson"}}

\* xxxJson.data of a response whose body parsed and carries a data object
JsonData(r) ==
    [totalNetInflow        |-> r.val,
     bigVolumeNetInflow    |-> r.val,
     buyMakerBigVolume     |-> r.val,
     buyTakerBigVolume     |-> r.val,
     mediumVolumeNetInflow |-> r.val,
     smallVolumeNetInflow  |-> r.val,
     updateTimestamp       |-> IF r.kind = "noTs" THEN Undefined ELSE r.val]

\* Array.prototype.slice(-k)
SliceLast(s, k) == IF Len(s) <= k THEN s ELSE SubSeq(s, Len(s) - k + 1, Len(s))

\* new Date().toLocaleTimeString(): the time of day, the date is dropped
ToLocaleTimeString(t) == t % SecondsPerDay

\* [...ref.current.slice(-19), { time: now, value: json.data.totalNetInflow }]
Appended(h, t, r) ==
    Append(SliceLast(h, SliceKeep), [time |-> t, value |-> JsonData(r).totalNetInflow])

\* (a variant of IssueFetches: both fetch() calls ask for ETHUSDT)
IssueFetchesSameSymbol(iss) ==
    [i \in InstrumentSet |-> IF i = "ETHUSDT" THEN iss[i] + 2 ELSE iss[i]]

\* the two fetch() calls of lines 143-144: one per instrument
IssueFetches(iss) == [i \in InstrumentSet |-> iss[i] + 1]

\* clearInterval(interval)
ClearInterval(t) == "cleared"

\* -------------------------------------------------------------- Init
Init ==
    /\ phase = "init"
    /\ interval = "none"
    /\ clock = StartClock
    /\ nCycles = 0
    /\ pc = [c \in Cycles |-> "idle"]
    /\ res = [c \in Cycles |-> [i \in InstrumentSet |-> Pending]]
    /\ running = 0
    /\ now = 0
    /\ history = [i \in InstrumentSet |-> <<>>]
    /\ data = [i \in InstrumentSet |-> Null]
    /\ issued = [i \in InstrumentSet |-> 0]
    /\ applied = [i \in InstrumentSet |-> <<>>]
    /\ published = [i \in InstrumentSet |-> <<>>]
    /\ trace = [i \in InstrumentSet |-> <<>>]

\* ----------------------------------------------------------- actions
\* fetchData() up to its first await: both fetches are issued (lines 140-145)
StartCycle(c) ==
    /\ nCycles' = c
    /\ pc' = [pc EXCEPT ![c] = "awaitAll"]
    /\ issued' = IssueFetches(issued)

\* an entry of trace[i]
Event(e, c) == [ev |-> e, cycle |-> c]

\* what `trace` records of StartCycle(c)
TraceStart(c) == trace' = [i \in InstrumentSet |-> Append(trace[i], Event("issued", c))]

\* the effect body, lines 168-169: fetchData(); setInterval(fetchData, 3000)
MountStep ==
    /\ phase = "init"
    /\ phase' = "mounted"
    /\ StartCycle(1)
    /\ interval' = "armed"
    /\ UNCHANGED <<clock, res, running, now, history, data, applied, published>>

Mount == MountStep /\ UNCHANGED trace

TracedMount == MountStep /\ TraceStart(1)

\* the interval timer fires: fetchData() (line 169)
TickStep ==
    /\ interval = "armed"
    /\ running = 0
    /\ nCycles < MaxCycles
    /\ StartCycle(nCycles + 1)
    /\ clock' = clock + PollSeconds
    /\ UNCHANGED <<phase, interval, res, running, now, history, data, applied,
                   published>>

Tick == TickStep /\ UNCHANGED trace

TracedTick == TickStep /\ TraceStart(nCycles + 1)

\* (a variant of Cleanup: the effect returns a cleanup that leaves the timer)
CleanupKeepsTimer ==
    /\ phase = "mounted"
    /\ running = 0
    /\ phase' = "unmounted"
    /\ UNCHANGED <<interval, clock, nCycles, pc, res, running, now, history, data,
                   issued, applied, published, trace>>

\* the effect cleanup, line 170: clearInterval(interval)
Cleanup ==
    /\ phase = "mounted"
    /\ running = 0
    /\ phase' = "unmounted"
    /\ interval' = ClearInterval(interval)
    /\ UNCHANGED <<clock, nCycles, pc, res, running, now, history, data, issued,
                   applied, published, trace>>

\* One fetch of call c settles (lines 142-145). Promise.all rejects as soon as
\* one fetch rejects, which lands in the catch block (lines 163-165); it
\* fulfils once both fetches have, and fetchData goes on to ethRes.json().
RespondStep(c, i, r) ==
    /\ running = 0
    /\ pc[c] = "awaitAll"
    /\ res[c][i].kind = "pending"
    /\ res' = [res EXCEPT ![c][i] = r]
    /\ pc' = [pc EXCEPT ![c] =
                 IF r.kind = "rejected" THEN "caught"
                 ELSE IF \A j \in InstrumentSet \ {i} : res[c][j].kind # "pending"
                      THEN "awaitEthJson"
                      ELSE "awaitAll"]
    /\ UNCHANGED <<phase, interval, clock, nCycles, running, now, history, data,
                   issued, applied, published>>

Respond(c, i, r) == RespondStep(c, i, r) /\ UNCHANGED trace

TracedRespond(c, i, r) ==
    /\ RespondStep(c, i, r)
    /\ trace' = IF r.kind = "rejected" THEN trace
                ELSE [trace EXCEPT ![i] = Append(@, Event("fulfilled", c))]

\* await ethRes.json() settles (line 147); a body that is not JSON rejects
EthJsonStep(c) ==
    /\ running = 0
    /\ pc[c] = "awaitEthJson"
    /\ pc' = [pc EXCEPT ![c] =
                 IF res[c]["ETHUSDT"].kind = "badJson" THEN "caught" ELSE "awaitBtcJson"]
    /\ UNCHANGED <<phase, interval, clock, nCycles, res, running, now, history, data,
                   issued, applied, published>>

\* what `trace` records when the body of call c's response for i has been read
TraceParsed(c, i) ==
    trace' = IF res[c][i].kind = "badJson" THEN trace
             ELSE [trace EXCEPT ![i] = Append(@, Event("parsed", c))]

EthJson(c) == EthJsonStep(c) /\ UNCHANGED trace

TracedEthJson(c) == EthJsonStep(c) /\ TraceParsed(c, "ETHUSDT")

\* await btcRes.json() settles (line 148); on success fetchData enters the
\* synchronous block and takes `now` (line 150)
BtcJsonStep(c) ==
    /\ running = 0
    /\ pc[c] = "awaitBtcJson"
    /\ IF res[c]["BTCUSDT"].kind = "badJson"
       THEN /\ pc' = [pc EXCEPT ![c] = "caught"]
            /\ UNCHANGED <<running, now>>
       ELSE /\ pc' = [pc EXCEPT ![c] = "appendEth"]
            /\ running' = c
            /\ now' = ToLocaleTimeString(clock)
    /\ UNCHANGED <<phase, interval, clock, nCycles, res, history, data, issued,
                   applied, published>>

BtcJson(c) == BtcJsonStep(c) /\ UNCHANGED trace

TracedBtcJson(c) == BtcJsonStep(c) /\ TraceParsed(c, "BTCUSDT")

\* One history assignment of the merge block. Reading json.data.totalNetInflow
\* throws a TypeError when the body has no data object; the throw leaves the
\* block for the catch block, with what was assigned before left in place.
AppendHistory(c, i, next) ==
    /\ running = c
    /\ IF res[c][i].kind = "noData"
       THEN /\ pc' = [pc EXCEPT ![c] = "caught"]
            /\ running' = 0
            /\ now' = 0
            /\ UNCHANGED <<history, applied>>
       ELSE /\ pc' = [pc EXCEPT ![c] = next]
            /\ history' = [history EXCEPT ![i] = Appended(@, now, res[c][i])]
            /\ applied' = [applied EXCEPT ![i] = Append(@, [cycle |-> c, at |-> clock])]
            /\ UNCHANGED <<running, now>>
    /\ UNCHANGED <<phase, interval, clock, nCycles, res, data, issued, published,
                   trace>>

\* (a variant of AppendEthHistory: an await after the first assignment hands
\* the thread back to the event loop in the middle of the merge block)
AppendEthHistoryYield(c) ==
    /\ pc[c] = "appendEth"
    /\ running = c
    /\ res[c]["ETHUSDT"].kind # "noData"
    /\ pc' = [pc EXCEPT ![c] = "appendBtc"]
    /\ history' = [history EXCEPT !["ETHUSDT"] = Appended(@, now, res[c]["ETHUSDT"])]
    /\ applied' = [applied EXCEPT !["ETHUSDT"] = Append(@, [cycle |-> c, at |-> clock])]
    /\ running' = 0
    /\ UNCHANGED <<phase, interval, clock, nCycles, res, data, issued, published,
                   trace, now>>

\* lines 152-155
AppendEthHistory(c) ==
    /\ pc[c] = "appendEth"
    /\ AppendHistory(c, "ETHUSDT", "appendBtc")

\* lines 156-159
AppendBtcHistory(c) ==
    /\ pc[c] = "appendBtc"
    /\ AppendHistory(c, "BTCUSDT", "setEth")

\* One state setter of the merge block: the whole data object replaces the
\* state, unchecked.
SetData(c, i) ==
    /\ running = c
    /\ data' = [data EXCEPT ![i] = JsonData(res[c][i])]
    /\ published' = [published EXCEPT ![i] = Append(@, c)]

\* line 161: setEthData(ethJson.data)
SetEthData(c) ==
    /\ pc[c] = "setEth"
    /\ SetData(c, "ETHUSDT")
    /\ pc' = [pc EXCEPT ![c] = "setBtc"]
    /\ UNCHANGED <<phase, interval, clock, nCycles, res, running, now, history,
                   issued, applied, trace>>

\* line 162: setBtcData(btcJson.data); fetchData returns
SetBtcData(c) ==
    /\ pc[c] = "setBtc"
    /\ SetData(c, "BTCUSDT")
    /\ pc' = [pc EXCEPT ![c] = "done"]
    /\ running' = 0
    /\ now' = 0
    /\ UNCHANGED <<phase, interval, clock, nCycles, res, history, issued, applied,
                   trace>>

\* the synchronous merge block, lines 150-162
Merge(c) ==
    \/ AppendEthHistory(c)
    \/ AppendBtcHistory(c)
    \/ SetEthData(c)
    \/ SetBtcData(c)

Next ==
    \/ Mount
    \/ Tick
    \/ Cleanup
    \/ \E c \in Cycles, i \in InstrumentSet : \E r \in Responses(c, i) : Respond(c, i, r)
    \/ \E c \in Cycles : EthJson(c)
    \/ \E c \in Cycles : BtcJson(c)
    \/ \E c \in Cycles : Merge(c)

Spec == Init /\ [][Next]_vars

\* The same program, with `trace` recording the order in which fetches are
\* issued, answered and read.
TracedNext ==
    \/ TracedMount
    \/ TracedTick
    \/ Cleanup
    \/ \E c \in Cycles, i \in InstrumentSet : \E r \in Responses(c, i) : TracedRespond(c, i, r)
    \/ \E c \in Cycles : TracedEthJson(c)
    \/ \E c \in Cycles : TracedBtcJson(c)
    \/ \E c \in Cycles : Merge(c)

SpecTraced == Init /\ [][TracedNext]_vars

\* A well-formed answer to call c's BTCUSDT fetch arrives
BtcAnswers(c) ==
    Respond(c, "BTCUSDT", [kind |-> "ok", val |-> SourceValue(c, "BTCUSDT")])

\* The same program under the scheduling the browser gives it: the effect runs,
\* an armed timer keeps firing, a settled promise's continuation runs, and a
\* well-formed BTCUSDT answer that is on its way arrives.
SpecFair ==
    /\ Init
    /\ [][Next]_vars
    /\ WF_vars(Mount)
    /\ WF_vars(Tick)
    /\ \A c \in Cycles :
            /\ WF_vars(BtcAnswers(c))
            /\ WF_vars(EthJson(c))
            /\ WF_vars(BtcJson(c))
            /\ WF_vars(Merge(c))

\* ------------------------------------------------- vocabulary of the claims
Min(a, b) == IF a < b THEN a ELSE b

Started == 1..nCycles

\* call c has left fetchData, by its last line or through the catch block
Settled(c) == pc[c] \in {"done", "caught"}

Quiescent == \A c \in Started : Settled(c)

\* call c's fetch for i brought a well-formed payload
Ok(c, i) == res[c][i].kind = "ok"

\* call c's fetch for i failed: a network error, a body that is not JSON or
\* has no data object (what an error status brings), or a malformed payload
FetchFailed(c, i) == res[c][i].kind \in {"rejected", "badJson", "noData", "noTs"}

\* the calls that appended a point to history[i] / that replaced data[i]
AppliedCycles(i) == {applied[i][k].cycle : k \in 1..Len(applied[i])}
PublishedCycles(i) == {published[i][k] : k \in 1..Len(published[i])}

\* the position of x in a sequence that holds it
Pos(s, x) == CHOOSE k \in 1..Len(s) : s[k] = x

InSeq(s, x) == \E k \in 1..Len(s) : s[k] = x

\* what history[i] must hold if no appended point was lost: the last
\* HistoryCap points appended, oldest first
ExpectedHistory(i) ==
    LET a == SliceLast(applied[i], HistoryCap)
    IN  [k \in 1..Len(a) |->
            [time |-> ToLocaleTimeString(a[k].at), value |-> SourceValue(a[k].cycle, i)]]

\* a Sample with every field present, all of them from one response
Complete(d, i) ==
    \E c \in Cycles : d = JsonData([kind |-> "ok", val |-> SourceValue(c, i)])

MergePcs == {"appendEth", "appendBtc", "setEth", "setBtc"}

\* ------------------------------------------------------------------- C1
\* C1: once every call has settled, each instrument's history has exactly
\* min(20, total) points, total being the number of its successful polls, and
\* holds the most recent accepted points in arrival order.
C1_BoundedHistory ==
    Quiescent =>
        \A i \in InstrumentSet :
            LET total == Cardinality({c \in Started : Ok(c, i)})
            IN  /\ Len(history[i]) = Min(HistoryCap, total)
                /\ history[i] = ExpectedHistory(i)

\* ------------------------------------------------------------------- C2
\* C2: when in one call the fetch of instrument a fails and the fetch of
\* instrument b succeeds, the call appends b's point to b's history and
\* replaces b's latestSample, and does neither for a.
C2_FailureIsolation ==
    \A c \in Started : \A a, b \in InstrumentSet :
        (a # b /\ Settled(c) /\ FetchFailed(c, a) /\ Ok(c, b)) =>
            /\ c \in AppliedCycles(b)
            /\ c \in PublishedCycles(b)
            /\ c \notin AppliedCycles(a)
            /\ c \notin PublishedCycles(a)

\* ------------------------------------------------------------------- C3
\* C3: a call whose fetch for an instrument failed (network error, error
\* status, malformed payload) neither appends to that instrument's history nor
\* replaces its latestSample.
C3_FailedFetchUntouched ==
    \A c \in Started : \A i \in InstrumentSet :
        (Settled(c) /\ FetchFailed(c, i)) =>
            (c \notin AppliedCycles(i) /\ c \notin PublishedCycles(i))

\* ------------------------------------------------------------------- C4
\* event e1 comes before event e2 in trace[i]
Before(i, e1, e2) == Pos(trace[i], e1) < Pos(trace[i], e2)

\* C4: when call c-1's fetch for an instrument is still in flight at the tick
\* that starts call c and both calls succeed, both results are applied, the
\* history receives the two points in the order the two fetches completed,
\* and the later latestSample is the one of the fetch that completed last.
\* A fetch completes when its response arrives or when its body has been
\* read: the claim is taken to hold if it holds for either reading.
C4_LastCompletedFetchWins ==
    \A i \in InstrumentSet : \A c \in Started \ {1} :
        LET p == c - 1
            byArrival == Before(i, Event("fulfilled", p), Event("fulfilled", c))
            byBody == Before(i, Event("parsed", p), Event("parsed", c))
            InOrder(pFirst) ==
                /\ (Pos(published[i], p) < Pos(published[i], c)) = pFirst
                /\ \A k, l \in 1..Len(applied[i]) :
                       (applied[i][k].cycle = p /\ applied[i][l].cycle = c) =>
                           ((k < l) = pFirst)
        IN  ( /\ pc[p] = "done" /\ pc[c] = "done"
              /\ \A j \in InstrumentSet : Ok(p, j) /\ Ok(c, j)
              /\ Before(i, Event("issued", c), Event("fulfilled", p)) ) =>
                /\ InSeq(published[i], p) /\ InSeq(published[i], c)
                /\ p \in AppliedCycles(i) /\ c \in AppliedCycles(i)
                /\ InOrder(byArrival) \/ InOrder(byBody)

\* ------------------------------------------------------------------- C5
\* C5: every visible latestSample is absent or has all six numeric fields and
\* updateTimestamp, taken together from one response.
C5_NoPartialSample ==
    \A i \in InstrumentSet : data[i] = Null \/ Complete(data[i], i)

\* ------------------------------------------------------------------- C6
\* C6: once the effect cleanup has run, no fetch is issued any more.
C6_NoFetchAfterStop == [][phase = "unmounted" => issued' = issued]_vars

\* the cleanup ran while a fetch was in flight and the timer still had calls to make
C6_Witness ==
    /\ phase = "unmounted"
    /\ nCycles < MaxCycles
    /\ \E c \in Started : pc[c] = "awaitAll"

\* ------------------------------------------------------------------- C7
\* C7: fetches are issued by timer ticks (and the mount) only, each tick issues
\* exactly one fetch per instrument, and a failed call leaves the timer armed,
\* so that the next tick is the retry.
C7_TickIssuesOneFetchEach ==
    /\ [][ /\ nCycles' = nCycles => issued' = issued
           /\ nCycles' # nCycles =>
                /\ nCycles' = nCycles + 1
                /\ \A i \in InstrumentSet : issued'[i] = issued[i] + 1 ]_vars
    /\ [] ( (phase = "mounted" /\ \E c \in Started : pc[c] = "caught") =>
              /\ interval = "armed"
              /\ (running = 0 /\ nCycles < MaxCycles) => ENABLED Tick )

\* a call failed and a later tick issued the next fetches
C7_Witness ==
    \E c \in Started :
        /\ pc[c] = "caught"
        /\ nCycles > c
        /\ \A i \in InstrumentSet : issued[i] = nCycles

\* ------------------------------------------------------------------- C8
\* C8: if the source never answers for ETHUSDT while every BTCUSDT fetch is
\* answered with a well-formed payload, and the component stays mounted, then
\* BTCUSDT's latestSample eventually becomes non-absent.
C8_OtherInstrumentProgresses ==
    ( /\ [] (\A c \in Cycles : res[c]["ETHUSDT"].kind = "pending")
      /\ [] (\A c \in Cycles : res[c]["BTCUSDT"].kind \in {"pending", "ok"})
      /\ [] (phase # "unmounted") )
    => <> (data["BTCUSDT"] # Null)

\* ------------------------------------------------------------------- C9
\* while a call is inside its merge block, the next step is that call's: no
\* tick and no other call's step comes in between
MergeRunsAlone ==
    \A c \in Cycles :
        pc[c] \in MergePcs =>
            /\ pc'[c] # pc[c]
            /\ nCycles' = nCycles
            /\ \A d \in Cycles \ {c} : pc'[d] = pc[d]

\* every point appended is still there (up to the capacity), in arrival order
NoPointLost ==
    \A i \in InstrumentSet :
        /\ history[i] = ExpectedHistory(i)
        /\ \A k \in 1..(Len(applied[i]) - 1) : applied[i][k].at <= applied[i][k + 1].at

\* observedAt, as history stores it, never decreases
ObservedAtMonotone ==
    \A i \in InstrumentSet :
        \A k \in 1..(Len(history[i]) - 1) : history[i][k].time <= history[i][k + 1].time

C10_SampleAndHistoryInStep ==
    running = 0 =>
        \A i \in InstrumentSet :
            /\ (data[i] = Null) <=> (history[i] = <<>>)
            /\ (data[i] # Null /\ history[i] # <<>>) =>
                   history[i][Len(history[i])].value = data[i].totalNetInflow
====
